---------------------------- MODULE Spec2Model ----------------------------
(***************************************************************************)
(* A model of the ola-lang-abi contract ABI codec: the type grammar and    *)
(* the Param (de)serialisation of src/src/params.rs and the dispatch layer *)
(* (Abi, Function) of src/src/abi.rs.                                      *)
(*                                                                         *)
(* Representation.                                                         *)
(*  - A Rust string is a sequence of one-character strings, so that the    *)
(*    parser and the renderers work on characters.                         *)
(*  - A u64 word is its eight bytes, most significant first (TLC's          *)
(*    integers are 32 bits wide, a method id needs 32 bits unsigned).      *)
(*  - A Type is a record tagged by k: a scalar [k], [k |-> "Array", e],     *)
(*    [k |-> "FixedArray", e, n] or [k |-> "Tuple", fs] with fs a sequence  *)
(*    of [name, ty].                                                       *)
(*  - Option<T> is <<>> (None) or <<t>> (Some(t)).                          *)
(*  - The fields of a record are written in the order in which TLC keeps   *)
(*    them, that of the first occurrence of their names in this module:    *)
(*    TLC sorts the fields of a record in place, and a record that its     *)
(*    workers share is then never rearranged while another one reads it.   *)
(***************************************************************************)
EXTENDS Integers, Sequences, FiniteSets, TLC

VARIABLES
    abi,      \* the Abi: [functions |-> Seq(Function), events |-> Seq(Event)]
    salt,     \* which member of the digest family stands for Keccak-256
    wire,     \* the word stream in flight (an encoder's output or caller data)
    wireSrc,  \* how the stream in flight was made
    entry,    \* the ParamEntry in flight (what serde reads and writes)
    entrySrc, \* how the entry in flight was made
    call,     \* the last operation called, with its arguments
    res       \* what that operation returned

vars == <<abi, salt, wire, wireSrc, entry, entrySrc, call, res>>

-----------------------------------------------------------------------------
(* Bounds of the model *)

MaxFuncs == 2       \* functions in an Abi
MaxEvents == 2      \* events in an Abi
MaxRawLen == 2      \* words of a stream supplied by a caller
MaxTopics == 2      \* topics of a log
MaxBrackets == 2    \* bracket groups of a generated type string
MaxParams == 3      \* decoded parameters of a list a reader is made of
MaxEntries == 3     \* entries of a schema that is loaded

-----------------------------------------------------------------------------
(* Strings *)

None == <<>>
Some(v) == <<v>>

DigitChars == <<"0", "1", "2", "3", "4", "5", "6", "7", "8", "9">>

IsDigit(c) == \E i \in 1..10 : DigitChars[i] = c

DigitValue(c) == (CHOOSE i \in 1..10 : DigitChars[i] = c) - 1

RECURSIVE NatToString(_)
\* format!("{}", size) of a u64: its decimal digits, no leading zero
NatToString(n) ==
    IF n < 10 THEN <<DigitChars[n + 1]>>
    ELSE NatToString(n \div 10) \o <<DigitChars[(n % 10) + 1]>>

RECURSIVE Join(_, _)
\* Vec<String>::join(sep)
Join(strs, sep) ==
    IF strs = <<>> THEN <<>>
    ELSE IF Len(strs) = 1 THEN strs[1]
    ELSE strs[1] \o sep \o Join(Tail(strs), sep)

StartsWith(s, p) == Len(s) >= Len(p) /\ SubSeq(s, 1, Len(p)) = p

Drop(s, n) == SubSeq(s, n + 1, Len(s))

-----------------------------------------------------------------------------
(* Types *)

TU32 == [k |-> "U32"]
TU256 == [k |-> "U256"]
TField == [k |-> "Field"]
TAddress == [k |-> "Address"]
THash == [k |-> "Hash"]
TBool == [k |-> "Bool"]
TString == [k |-> "String"]
TFields == [k |-> "Fields"]
TArray(e) == [k |-> "Array", e |-> e]
TFixedArray(e, n) == [n |-> n, k |-> "FixedArray", e |-> e]
TTuple(fs) == [k |-> "Tuple", fs |-> fs]

\* one field of a Type::Tuple: (String, Type)
Fld(name, ty) == [name |-> name, ty |-> ty]

\* the keyword of a scalar type
Keyword(k) ==
    CASE k = "U32" -> <<"u", "3", "2">>
      [] k = "U256" -> <<"u", "2", "5", "6">>
      [] k = "Field" -> <<"f", "i", "e", "l", "d">>
      [] k = "Address" -> <<"a", "d", "d", "r", "e", "s", "s">>
      [] k = "Hash" -> <<"h", "a", "s", "h">>
      [] k = "Bool" -> <<"b", "o", "o", "l">>
      [] k = "String" -> <<"s", "t", "r", "i", "n", "g">>
      [] k = "Fields" -> <<"f", "i", "e", "l", "d", "s">>

KwTuple == <<"t", "u", "p", "l", "e">>

RECURSIVE TypeToString(_)
\* Display for Type, used by Function::signature
TypeToString(ty) ==
    CASE ty.k = "Tuple" -> KwTuple
      [] ty.k = "Array" -> TypeToString(ty.e) \o <<"[", "]">>
      [] ty.k = "FixedArray" ->
            TypeToString(ty.e) \o <<"[">> \o NatToString(ty.n) \o <<"]">>
      [] OTHER -> Keyword(ty.k)

RECURSIVE param_type_string(_)
param_type_string(ty) ==
    CASE ty.k = "Tuple" -> KwTuple
      [] ty.k = "Array" -> param_type_string(ty.e) \o <<"[", "]">>
      [] ty.k = "FixedArray" ->
            param_type_string(ty.e) \o <<"[">> \o NatToString(ty.n) \o <<"]">>
      [] OTHER -> TypeToString(ty)

-----------------------------------------------------------------------------
(* Param and ParamEntry *)

Param(name, ty, indexed) == [name |-> name, indexed |-> indexed, type_ |-> ty]

ParamEntry(name, tystr, indexed, components) ==
    [name |-> name, indexed |-> indexed, type_ |-> tystr,
     components |-> components]

RECURSIVE build_param_entry(_)
\* build_param_entry that does not build the components of a component
build_param_entry_Flat(p) ==
    LET tuple_params ==
            CASE p.type_.k = "Tuple" -> Some(p.type_.fs)
              [] p.type_.k \in {"Array", "FixedArray"} ->
                    IF p.type_.e.k = "Tuple" THEN Some(p.type_.e.fs) ELSE None
              [] OTHER -> None
        components ==
            IF tuple_params = None THEN None
            ELSE Some([i \in 1..Len(tuple_params[1]) |->
                        ParamEntry(tuple_params[1][i].name,
                                   param_type_string(tuple_params[1][i].ty),
                                   None, None)])
    IN  ParamEntry(p.name, param_type_string(p.type_), p.indexed, components)

\* Param::build_param_entry
build_param_entry(p) ==
    LET tuple_params ==
            CASE p.type_.k = "Tuple" -> Some(p.type_.fs)
              [] p.type_.k \in {"Array", "FixedArray"} ->
                    IF p.type_.e.k = "Tuple" THEN Some(p.type_.e.fs) ELSE None
              [] OTHER -> None
        components ==
            IF tuple_params = None THEN None
            ELSE Some([i \in 1..Len(tuple_params[1]) |->
                        build_param_entry(Param(tuple_params[1][i].name,
                                                tuple_params[1][i].ty, None))])
    IN  ParamEntry(p.name, param_type_string(p.type_), p.indexed, components)

-----------------------------------------------------------------------------
(* The type grammar (nom combinators).  A parser's result is              *)
(* [st |-> "Ok", rest, v], [st |-> "Error"] (recoverable: alt tries the    *)
(* next branch) or [st |-> "Failure"] (not recoverable).                   *)

POk(rest, v) == [v |-> v, rest |-> rest, st |-> "Ok"]
PError == [st |-> "Error"]
PFailure == [st |-> "Failure"]

\* tag(t)(input) mapped to the constant v
Tag(t, v, input) ==
    IF StartsWith(input, t) THEN POk(Drop(input, Len(t)), v) ELSE PError

parse_u32(input) == Tag(Keyword("U32"), TU32, input)
parse_u256(input) == Tag(Keyword("U256"), TU256, input)
parse_field(input) == Tag(Keyword("Field"), TField, input)
parse_address(input) == Tag(Keyword("Address"), TAddress, input)
parse_hash(input) == Tag(Keyword("Hash"), THash, input)
parse_bool(input) == Tag(Keyword("Bool"), TBool, input)
parse_string(input) == Tag(Keyword("String"), TString, input)
parse_fields(input) == Tag(Keyword("Fields"), TFields, input)

\* u64::MAX in decimal
U64MaxDigits ==
    <<1, 8, 4, 4, 6, 7, 4, 4, 0, 7, 3, 7, 0, 9, 5, 5, 1, 6, 1, 5>>

RECURSIVE StripZeros(_)
StripZeros(ds) ==
    IF Len(ds) > 1 /\ ds[1] = 0 THEN StripZeros(Tail(ds)) ELSE ds

RECURSIVE LexLeq(_, _)
LexLeq(a, b) ==
    IF a = <<>> THEN TRUE
    ELSE IF a[1] # b[1] THEN a[1] < b[1]
    ELSE LexLeq(Tail(a), Tail(b))

\* whether str::parse::<u64> accepts the digits
FitsU64(ds) ==
    LET d == StripZeros(ds)
    IN  Len(d) < Len(U64MaxDigits)
        \/ (Len(d) = Len(U64MaxDigits) /\ LexLeq(d, U64MaxDigits))

RECURSIVE DigitsToNat(_)
DigitsToNat(ds) ==
    IF ds = <<>> THEN 0
    ELSE 10 * DigitsToNat(SubSeq(ds, 1, Len(ds) - 1)) + ds[Len(ds)]

RECURSIVE DigitPrefixLen(_)
\* how many leading characters of the input are digits
DigitPrefixLen(input) ==
    IF input # <<>> /\ IsDigit(input[1]) THEN 1 + DigitPrefixLen(Tail(input))
    ELSE 0

parse_integer(input) ==
    LET n == DigitPrefixLen(input)
        ds == [i \in 1..n |-> DigitValue(input[i])]
    IN  IF n = 0 THEN PError
        ELSE IF ~FitsU64(ds) THEN PError
        ELSE POk(Drop(input, n), DigitsToNat(StripZeros(ds)))

\* delimited(char('['), opt(parse_integer), char(']')): v is an Option<u64>
ParseBracket(input) ==
    IF input = <<>> \/ input[1] # "[" THEN PError
    ELSE LET i1 == Tail(input)
             r == parse_integer(i1)
             i2 == IF r.st = "Ok" THEN r.rest ELSE i1
             size == IF r.st = "Ok" THEN Some(r.v) ELSE None
         IN  IF i2 = <<>> \/ i2[1] # "]" THEN PError
             ELSE POk(Tail(i2), size)

RECURSIVE Many0Brackets(_, _)
\* the loop of many1 after its first element: stops at the first Error
Many0Brackets(input, acc) ==
    LET r == ParseBracket(input)
    IN  IF r.st = "Ok" THEN Many0Brackets(r.rest, Append(acc, r.v))
        ELSE POk(input, acc)

\* many1(delimited(...))
Many1Brackets(input) ==
    LET r == ParseBracket(input)
    IN  IF r.st = "Ok" THEN Many0Brackets(r.rest, <<r.v>>) ELSE PError

array_from_size(ty, size) ==
    IF size = None THEN TArray(ty) ELSE TFixedArray(ty, size[1])

RECURSIVE FoldSizes(_, _, _)
\* sizes.into_iter().skip(from - 1).fold(acc, array_from_size)
FoldSizes(acc, sizes, from) ==
    IF from > Len(sizes) THEN acc
    ELSE FoldSizes(array_from_size(acc, sizes[from]), sizes, from + 1)

\* alt over the eight keyword parsers that follow parse_tuple
ParseKeyword(input) ==
    LET rs == <<parse_fields(input), parse_u32(input), parse_u256(input),
                parse_field(input), parse_address(input), parse_hash(input),
                parse_bool(input), parse_string(input)>>
    IN  IF \E i \in 1..Len(rs) : rs[i].st = "Ok"
        THEN rs[CHOOSE i \in 1..Len(rs) :
                    rs[i].st = "Ok" /\ \A j \in 1..(i - 1) : rs[j].st # "Ok"]
        ELSE PError

\* all_consuming that lets input be left over
AllConsuming_Lenient(r) == r

\* all_consuming: input left over is an error
AllConsuming(r) == IF r.st = "Ok" /\ r.rest # <<>> THEN PError ELSE r

\* alt of two parsers: the second is tried on an Error of the first only
Alt(r1, r2) == IF r1.st = "Error" THEN r2 ELSE r1

RECURSIVE FoldSizesDown(_, _, _)
FoldSizesDown(acc, sizes, from) ==
    IF from < 1 THEN acc
    ELSE FoldSizesDown(array_from_size(acc, sizes[from]), sizes, from - 1)

\* parse_array that folds the sizes from the last: the first bracket outermost
ArrayOf_OuterFirst(r, b) ==
    IF b.st # "Ok" THEN b
    ELSE POk(b.rest, FoldSizesDown(r.v, b.v, Len(b.v)))

\* the array type of parse_array, from the simple type r and the sizes b
ArrayOf(r, b) ==
    IF b.st # "Ok" THEN b
    ELSE POk(b.rest, FoldSizes(array_from_size(r.v, b.v[1]), b.v, 2))

\* the rest of parse_array after its simple type r
ThenBrackets(r) == IF r.st # "Ok" THEN r ELSE ArrayOf(r, Many1Brackets(r.rest))

\* the end of parse_tuple: t is what followed the keyword, tys the fold
TupleOf(t, tys) ==
    IF tys.st # "Ok" THEN PFailure ELSE POk(t.rest, TTuple(tys.v))

RECURSIVE parse_exact_type(_, _)
RECURSIVE parse_type(_, _)
RECURSIVE parse_simple_type(_, _)
RECURSIVE parse_array(_, _)
RECURSIVE parse_tuple(_, _)
RECURSIVE TryFoldComponents(_, _)
RECURSIVE FoldStep(_, _, _)

\* all_consuming(parse_type(components))(input)
parse_exact_type(components, input) ==
    AllConsuming(parse_type(components, input))

\* alt((parse_array, parse_simple_type))
parse_type(components, input) ==
    Alt(parse_array(components, input), parse_simple_type(components, input))

\* alt((parse_tuple, parse_fields, ..., parse_string))
parse_simple_type(components, input) ==
    Alt(parse_tuple(components, input), ParseKeyword(input))

parse_array(components, input) ==
    ThenBrackets(parse_simple_type(components, input))

\* one step of the try_fold of parse_tuple: r is the parse of the component
\* cs[1], param_tys the fields so far
FoldStep(cs, param_tys, r) ==
    IF r.st # "Ok" THEN PFailure
    ELSE TryFoldComponents(Tail(cs), Append(param_tys, Fld(cs[1].name, r.v)))

\* the try_fold that hands no components down to a component
TryFoldComponents_NoNested(cs, param_tys) ==
    IF cs = <<>> THEN [v |-> param_tys, st |-> "Ok"]
    ELSE FoldStep(cs, param_tys, parse_exact_type(None, cs[1].type_))

\* the try_fold of parse_tuple over the components cs: each component's type
\* string is parsed against the component's own components
TryFoldComponents(cs, param_tys) ==
    IF cs = <<>> THEN [v |-> param_tys, st |-> "Ok"]
    ELSE FoldStep(cs, param_tys,
                  parse_exact_type(cs[1].components, cs[1].type_))

parse_tuple(components, input) ==
    IF ~StartsWith(input, KwTuple) THEN PError
    ELSE IF components = None THEN PFailure
    ELSE TupleOf(Tag(KwTuple, TRUE, input),
                 TryFoldComponents(components[1], <<>>))

\* the Param of an entry whose type string parsed as r
ParamOf(e, r) ==
    IF r.st = "Ok" THEN [ok |-> TRUE, param |-> Param(e.name, r.v, e.indexed)]
    ELSE [ok |-> FALSE]

\* Deserialize for Param: [ok |-> TRUE, param] or [ok |-> FALSE]
DeserializeParam(e) == ParamOf(e, parse_exact_type(e.components, e.type_))

\* Serialize for Param
SerializeParam(p) == build_param_entry(p)

-----------------------------------------------------------------------------
(* Words *)

ZeroBytes4 == <<0, 0, 0, 0>>

\* `n as u64` for a usize n below 2^31
U64(n) ==
    ZeroBytes4 \o <<(n \div 16777216) % 256, (n \div 65536) % 256,
                    (n \div 256) % 256, n % 256>>

\* the word is below 2^32
FitsU32(w) == SubSeq(w, 1, 4) = ZeroBytes4

\* the word is below 2^24: the only words whose value the model computes
IsSmall(w) == FitsU32(w) /\ w[5] = 0

SmallValue(w) == w[6] * 65536 + w[7] * 256 + w[8]

-----------------------------------------------------------------------------
(* Values and the value codec *)

VU32(w) == [k |-> "U32", w |-> w]
VField(w) == [k |-> "Field", w |-> w]
VBool(w) == [k |-> "Bool", w |-> w]
VAddress(a) == [k |-> "Address", a |-> a]
VString(cs) == [k |-> "String", cs |-> cs]
VFields(ws) == [k |-> "Fields", ws |-> ws]
VArray(vs, ty) == [k |-> "Array", ty |-> ty, vs |-> vs]
VFixedArray(vs, ty) == [k |-> "FixedArray", ty |-> ty, vs |-> vs]
VTuple(fs) == [k |-> "Tuple", fs |-> fs]

\* one field of a Value::Tuple: (String, Value)
VFld(name, v) == [v |-> v, name |-> name]

\* the largest code point of a char
MaxCodePoint == 1114111

RECURSIVE TypeOf(_)
\* the Type a Value is of
TypeOf(v) ==
    CASE v.k = "Array" -> TArray(v.ty)
      [] v.k = "FixedArray" -> TFixedArray(v.ty, Len(v.vs))
      [] v.k = "Tuple" ->
            TTuple([i \in 1..Len(v.fs) |-> Fld(v.fs[i].name, TypeOf(v.fs[i].v))])
      [] OTHER -> [k |-> v.k]

RECURSIVE WellTyped(_)
\* every element of an array value is of the array's element type
WellTyped(v) ==
    CASE v.k \in {"Array", "FixedArray"} ->
            \A i \in 1..Len(v.vs) : WellTyped(v.vs[i]) /\ TypeOf(v.vs[i]) = v.ty
      [] v.k = "Tuple" -> \A i \in 1..Len(v.fs) : WellTyped(v.fs[i].v)
      [] OTHER -> TRUE

RECURSIVE Flatten(_)
\* the concatenation of a sequence of word sequences
Flatten(ss) == IF ss = <<>> THEN <<>> ELSE ss[1] \o Flatten(Tail(ss))

RECURSIVE EncodeValue(_)
\* the encoding of one value
EncodeValue(v) ==
    CASE v.k \in {"U32", "Field", "Bool"} -> <<v.w>>
      [] v.k \in {"U256", "Address", "Hash"} -> v.a
      [] v.k = "String" ->
            <<U64(Len(v.cs))>> \o [i \in 1..Len(v.cs) |-> U64(v.cs[i])]
      [] v.k = "Fields" -> <<U64(Len(v.ws))>> \o v.ws
      [] v.k = "Array" ->
            <<U64(Len(v.vs))>>
                \o Flatten([i \in 1..Len(v.vs) |-> EncodeValue(v.vs[i])])
      [] v.k = "FixedArray" ->
            Flatten([i \in 1..Len(v.vs) |-> EncodeValue(v.vs[i])])
      [] v.k = "Tuple" ->
            Flatten([i \in 1..Len(v.fs) |-> EncodeValue(v.fs[i].v)])

\* Value::encode(values)
Encode(values) == Flatten([i \in 1..Len(values) |-> EncodeValue(values[i])])

DOk(v, rest) == [v |-> v, rest |-> rest, ok |-> TRUE]
DErr == [ok |-> FALSE]

RECURSIVE DecodeValue(_, _)
RECURSIVE DecodeRepeat(_, _, _, _)
RECURSIVE DecodeFields(_, _, _)

\* n values of type ty off the front of ws, after the values acc
DecodeRepeat(ty, n, ws, acc) ==
    IF n = 0 THEN DOk(acc, ws)
    ELSE LET r == DecodeValue(ty, ws)
         IN  IF ~r.ok THEN DErr
             ELSE DecodeRepeat(ty, n - 1, r.rest, Append(acc, r.v))

\* the fields fs of a tuple off the front of ws, after the fields acc
DecodeFields(fs, ws, acc) ==
    IF fs = <<>> THEN DOk(acc, ws)
    ELSE LET r == DecodeValue(fs[1].ty, ws)
         IN  IF ~r.ok THEN DErr
             ELSE DecodeFields(Tail(fs), r.rest,
                               Append(acc, VFld(fs[1].name, r.v)))

\* one value of type ty off the front of ws
DecodeValue(ty, ws) ==
    CASE ty.k = "Field" ->
            IF ws = <<>> THEN DErr ELSE DOk(VField(ws[1]), Tail(ws))
      [] ty.k = "U32" ->
            IF ws = <<>> \/ ~FitsU32(ws[1]) THEN DErr
            ELSE DOk(VU32(ws[1]), Tail(ws))
      [] ty.k = "Bool" ->
            IF ws = <<>> \/ ws[1] \notin {U64(0), U64(1)} THEN DErr
            ELSE DOk(VBool(ws[1]), Tail(ws))
      [] ty.k \in {"U256", "Address", "Hash"} ->
            IF Len(ws) < 4 THEN DErr
            ELSE DOk([k |-> ty.k, a |-> SubSeq(ws, 1, 4)], Drop(ws, 4))
      [] ty.k = "String" ->
            IF ws = <<>> \/ ~IsSmall(ws[1]) \/ SmallValue(ws[1]) > Len(ws) - 1
            THEN DErr
            ELSE LET n == SmallValue(ws[1])
                 IN  IF \E i \in 2..(n + 1) :
                            ~IsSmall(ws[i]) \/ SmallValue(ws[i]) > MaxCodePoint
                     THEN DErr
                     ELSE DOk(VString([i \in 1..n |-> SmallValue(ws[i + 1])]),
                              Drop(ws, n + 1))
      [] ty.k = "Fields" ->
            IF ws = <<>> \/ ~IsSmall(ws[1]) \/ SmallValue(ws[1]) > Len(ws) - 1
            THEN DErr
            ELSE LET n == SmallValue(ws[1])
                 IN  DOk(VFields(SubSeq(ws, 2, n + 1)), Drop(ws, n + 1))
      [] ty.k = "Array" ->
            IF ws = <<>> \/ ~IsSmall(ws[1]) THEN DErr
            ELSE LET r == DecodeRepeat(ty.e, SmallValue(ws[1]), Tail(ws), <<>>)
                 IN  IF ~r.ok THEN DErr ELSE DOk(VArray(r.v, ty.e), r.rest)
      [] ty.k = "FixedArray" ->
            LET r == DecodeRepeat(ty.e, ty.n, ws, <<>>)
            IN  IF ~r.ok THEN DErr ELSE DOk(VFixedArray(r.v, ty.e), r.rest)
      [] ty.k = "Tuple" ->
            LET r == DecodeFields(ty.fs, ws, <<>>)
            IN  IF ~r.ok THEN DErr ELSE DOk(VTuple(r.v), r.rest)

RECURSIVE DecodeTypes(_, _, _)
DecodeTypes(tys, ws, acc) ==
    IF tys = <<>> THEN DOk(acc, ws)
    ELSE LET r == DecodeValue(tys[1], ws)
         IN  IF ~r.ok THEN DErr
             ELSE DecodeTypes(Tail(tys), r.rest, Append(acc, r.v))

\* Value::decode_from_slice(words, types): the values, or an error
decode_from_slice(ws, tys) == DecodeTypes(tys, ws, <<>>)

-----------------------------------------------------------------------------
(* Keccak-256.  The hash is an external primitive; the model draws it from *)
(* a family of functions of the hashed string, indexed by salt, whose      *)
(* digests collide entirely (the third for two strings), in their first   *)
(* four bytes only (the first and the third) or not at all.                *)

Digests ==
    <<<<241, 70, 255, 9>> \o [i \in 1..28 |-> 2],
      <<0, 0, 0, 2>> \o [i \in 1..28 |-> 3],
      <<241, 70, 255, 9>> \o [i \in 1..28 |-> 1]>>

Salts == {0, 1}

Keccak256(s, bytes) == Digests[((Len(bytes) * s) % Len(Digests)) + 1]

-----------------------------------------------------------------------------
(* Function and Event *)

Function(name, inputs, outputs) ==
    [name |-> name, inputs |-> inputs, outputs |-> outputs]

Event(name, inputs, anonymous) ==
    [name |-> name, inputs |-> inputs, anonymous |-> anonymous]

\* signature() that writes the parameter names too
signature_WithNames(f) ==
    f.name \o <<"(">>
        \o Join([i \in 1..Len(f.inputs) |->
                    TypeToString(f.inputs[i].type_) \o <<" ">> \o f.inputs[i].name],
                <<",">>)
        \o <<")">>

\* Function::signature
signature(f) ==
    f.name \o <<"(">>
        \o Join([i \in 1..Len(f.inputs) |-> TypeToString(f.inputs[i].type_)],
                <<",">>)
        \o <<")">>

\* Function::method_id, under the digest function of salt s
method_id(s, f) == ZeroBytes4 \o SubSeq(Keccak256(s, signature(f)), 1, 4)

\* Event::signature
event_signature(e) ==
    e.name \o <<"(">>
        \o Join([i \in 1..Len(e.inputs) |-> TypeToString(e.inputs[i].type_)],
                <<",">>)
        \o <<")">>

\* Event::topic: the whole digest as a FixedArray4, four words
topic(s, e) ==
    LET d == Keccak256(s, event_signature(e))
    IN  [i \in 1..4 |-> SubSeq(d, 8 * i - 7, 8 * i)]

-----------------------------------------------------------------------------
(* Results.  A call returns Ok(..), Err(..), or panics (the process        *)
(* aborts).  An Err records whether Value::decode_from_slice had run.      *)

ROkDecoded(idx, f, params) ==
    [f |-> f, idx |-> idx, params |-> params, kind |-> "Ok"]
ROkWords(ws) == [kind |-> "Ok", words |-> ws]
RErr(err, decoding) == [kind |-> "Err", err |-> err, decoding |-> decoding]
RPanic == [kind |-> "Panic"]

NotFound == RErr("NotFound", FALSE)
MissingTopic == RErr("MissingTopic", FALSE)
CodecError == RErr("Codec", TRUE)

\* DecodedParams::from(params.zip(values))
DecodedParams(params, values) ==
    [i \in 1..(IF Len(params) < Len(values) THEN Len(params) ELSE Len(values))
        |-> [param |-> params[i], value |-> values[i]]]

\* iter().find(pred): the index of the first element whose flag (the
\* predicate on it) holds, 0 if none
FindFirst(flags) ==
    IF \E i \in 1..Len(flags) : flags[i]
    THEN CHOOSE i \in 1..Len(flags) :
            flags[i] /\ \A j \in 1..(i - 1) : ~flags[j]
    ELSE 0

\* Function::decode_input_from_slice
Function_decode_input_from_slice(f, input) ==
    LET inputs_types == [i \in 1..Len(f.inputs) |-> f.inputs[i].type_]
    IN  decode_from_slice(input, inputs_types)

\* Function::decode_output_from_slice
Function_decode_output_from_slice(f, output) ==
    LET outputs_types == [i \in 1..Len(f.outputs) |-> f.outputs[i].type_]
    IN  decode_from_slice(output, outputs_types)

\* decode_input_from_slice that takes the last function of the method id
decode_input_from_slice_LastMatch(a, s, input) ==
    IF a.functions # <<>> /\ input = <<>> THEN RPanic
    ELSE LET hits == {i \in 1..Len(a.functions) :
                        method_id(s, a.functions[i]) = input[Len(input)]}
         IN  IF hits = {} THEN NotFound
             ELSE IF Len(input) < 2 THEN RPanic
             ELSE LET idx == CHOOSE i \in hits : \A j \in hits : j <= i
                      f == a.functions[idx]
                      d == Function_decode_input_from_slice(
                               f, SubSeq(input, 1, Len(input) - 2))
                  IN  IF ~d.ok THEN CodecError
                      ELSE ROkDecoded(idx, f, DecodedParams(f.inputs, d.v))

\* decode_input_from_slice that compares the count word with the number of
\* words before it
decode_input_from_slice_CheckCount(a, s, input) ==
    IF a.functions # <<>> /\ input = <<>> THEN RPanic
    ELSE LET MatchId(f) == method_id(s, f) = input[Len(input)]
             idx == FindFirst([i \in 1..Len(a.functions) |->
                                MatchId(a.functions[i])])
         IN  IF idx = 0 THEN NotFound
             ELSE IF Len(input) < 2 THEN RPanic
             ELSE IF input[Len(input) - 1] # U64(Len(input) - 2) THEN CodecError
             ELSE LET f == a.functions[idx]
                      d == Function_decode_input_from_slice(
                               f, SubSeq(input, 1, Len(input) - 2))
                  IN  IF ~d.ok THEN CodecError
                      ELSE ROkDecoded(idx, f, DecodedParams(f.inputs, d.v))

\* decode_input_from_slice that reads the method id off the first word
decode_input_from_slice_FirstWord(a, s, input) ==
    IF a.functions # <<>> /\ input = <<>> THEN RPanic
    ELSE LET MatchId(f) == method_id(s, f) = input[1]
             idx == FindFirst([i \in 1..Len(a.functions) |->
                                 MatchId(a.functions[i])])
         IN  IF idx = 0 THEN NotFound
             ELSE IF Len(input) < 2 THEN RPanic
             ELSE LET f == a.functions[idx]
                      d == Function_decode_input_from_slice(
                               f, SubSeq(input, 1, Len(input) - 2))
                  IN  IF ~d.ok THEN CodecError
                      ELSE ROkDecoded(idx, f, DecodedParams(f.inputs, d.v))

\* Abi::decode_input_from_slice
decode_input_from_slice(a, s, input) ==
    IF a.functions # <<>> /\ input = <<>> THEN RPanic
    ELSE LET MatchId(f) == method_id(s, f) = input[Len(input)]
             idx == FindFirst([i \in 1..Len(a.functions) |->
                                 MatchId(a.functions[i])])
         IN  IF idx = 0 THEN NotFound
             ELSE IF Len(input) < 2 THEN RPanic
             ELSE LET f == a.functions[idx]
                      d == Function_decode_input_from_slice(
                               f, SubSeq(input, 1, Len(input) - 2))
                  IN  IF ~d.ok THEN CodecError
                      ELSE ROkDecoded(idx, f, DecodedParams(f.inputs, d.v))

\* decode_output_from_slice that drops two words, as the input decoder does
decode_output_from_slice_DropTwo(a, sig, output) ==
    LET MatchSig(f) == signature(f) = sig
        idx == FindFirst([i \in 1..Len(a.functions) |->
                            MatchSig(a.functions[i])])
    IN  IF idx = 0 THEN NotFound
        ELSE IF Len(output) < 2 THEN RPanic
        ELSE LET f == a.functions[idx]
                 d == Function_decode_output_from_slice(
                          f, SubSeq(output, 1, Len(output) - 2))
             IN  IF ~d.ok THEN CodecError
                 ELSE ROkDecoded(idx, f, DecodedParams(f.outputs, d.v))

\* Abi::decode_output_from_slice
decode_output_from_slice(a, sig, output) ==
    LET MatchSig(f) == signature(f) = sig
        idx == FindFirst([i \in 1..Len(a.functions) |->
                            MatchSig(a.functions[i])])
    IN  IF idx = 0 THEN NotFound
        ELSE IF Len(output) < 1 THEN RPanic
        ELSE LET f == a.functions[idx]
                 d == Function_decode_output_from_slice(
                          f, SubSeq(output, 1, Len(output) - 1))
             IN  IF ~d.ok THEN CodecError
                 ELSE ROkDecoded(idx, f, DecodedParams(f.outputs, d.v))

\* encode_input_with_signature that pushes the method id before the count
encode_input_with_signature_IdFirst(a, s, sig, params) ==
    LET MatchSig(f) == signature(f) = sig
        idx == FindFirst([i \in 1..Len(a.functions) |->
                            MatchSig(a.functions[i])])
    IN  IF idx = 0 THEN NotFound
        ELSE LET enc == Encode(params)
                 withId == Append(enc, method_id(s, a.functions[idx]))
             IN  ROkWords(Append(withId, U64(Len(withId))))

\* Abi::encode_input_with_signature
encode_input_with_signature(a, s, sig, params) ==
    LET MatchSig(f) == signature(f) = sig
        idx == FindFirst([i \in 1..Len(a.functions) |->
                            MatchSig(a.functions[i])])
    IN  IF idx = 0 THEN NotFound
        ELSE LET enc == Encode(params)
                 withLen == Append(enc, U64(Len(enc)))
             IN  ROkWords(Append(withLen, method_id(s, a.functions[idx])))

\* Abi::encode_values
encode_values(params) ==
    LET enc == Encode(params)
    IN  ROkWords(Append(enc, U64(Len(enc))))

-----------------------------------------------------------------------------
(* The inputs the calls are made with *)

\* funname(address,u32[2]), the function of the tests of abi.rs
F1 ==
    Function(<<"f", "u", "n", "n", "a", "m", "e">>,
             <<Param(<<"a">>, TAddress, None),
               Param(<<"x">>, TFixedArray(TU32, 2), None)>>,
             <<>>)

\* the same name and input types under other parameter names and outputs
F2 ==
    Function(<<"f", "u", "n", "n", "a", "m", "e">>,
             <<Param(<<"b">>, TAddress, None),
               Param(<<"y">>, TFixedArray(TU32, 2), None)>>,
             <<Param(<<>>, TString, None)>>)

F3 == Function(<<"g">>, <<>>, <<Param(<<"r">>, TString, None)>>)

F4 ==
    Function(<<"g">>,
             <<Param(<<"v">>, TArray(TU32), None), Param(<<>>, TBool, None)>>,
             <<Param(<<"n">>, TU32, None)>>)

F5 ==
    Function(<<"h">>,
             <<Param(<<"t">>,
                     TTuple(<<Fld(<<"a">>, TU32), Fld(<<"b">>, TString)>>),
                     None)>>,
             <<>>)

FunctionSet == {F1, F2, F3, F4, F5}

\* the sequences over S of length at most n
SeqUpTo(S, n) == UNION {[1..m -> S] : m \in 0..n}

ValuesF1 ==
    <<VAddress(<<U64(1), U64(2), U64(3), U64(4)>>),
      VFixedArray(<<VU32(U64(37)), VU32(U64(109))>>, TU32)>>

\* the value lists that are encoded: none, those of funname, "hello", those
\* of g(u32[],bool) with and without an element, that of h(tuple), one u32
ValueLists ==
    {<<>>,
     ValuesF1,
     <<VString(<<104, 101, 108, 108, 111>>)>>,
     <<VArray(<<VU32(U64(7))>>, TU32), VBool(U64(1))>>,
     <<VArray(<<>>, TU32), VBool(U64(0))>>,
     <<VTuple(<<VFld(<<"a">>, VU32(U64(1))),
                VFld(<<"b">>, VString(<<97>>))>>)>>,
     <<VU32(U64(5))>>}

\* the signatures of the functions, and one that no function has
Signatures ==
    {signature(f) : f \in FunctionSet} \cup {<<"g", "(", "u", "3", "2", ")">>}

\* the words of the streams a caller supplies: small ones, the method ids the
\* digests give, and 2^32, which no u32 holds
RawWords ==
    {U64(0), <<0, 0, 0, 1, 0, 0, 0, 0>>}
        \cup {ZeroBytes4 \o SubSeq(Digests[i], 1, 4) : i \in 1..Len(Digests)}

RawStreams == SeqUpTo(RawWords, MaxRawLen)

\* whether the values are of the parameters' types, in order
Matches(values, params) ==
    /\ Len(values) = Len(params)
    /\ \A i \in 1..Len(values) :
        WellTyped(values[i]) /\ TypeOf(values[i]) = params[i].type_

-----------------------------------------------------------------------------
(* The calls on an Abi *)

NoCall == [op |-> "none"]
NoResult == [kind |-> "None"]
RawSrc == [op |-> "supplied"]

InitCall ==
    /\ abi \in [functions : SeqUpTo(FunctionSet, MaxFuncs), events : {<<>>}]
    /\ salt \in Salts
    /\ wire = <<>>
    /\ wireSrc = RawSrc
    /\ entry = None
    /\ entrySrc = NoCall
    /\ call = NoCall
    /\ res = NoResult

\* A behaviour is one exchange: a stream is put in flight (by an encoder or
\* by the caller), then the calls that read it are made.  The calls are pure,
\* so what a later exchange returns is what a first one returns.
Fresh == call = NoCall

\* a caller hands in a word stream of its own
Supply(stream) ==
    /\ Fresh
    /\ wire' = stream
    /\ wireSrc' = RawSrc
    /\ call' = [op |-> "supply"]
    /\ res' = NoResult
    /\ UNCHANGED <<abi, salt, entry, entrySrc>>

\* the stream an encoder returned is the stream in flight
Sent(c, r) ==
    /\ Fresh
    /\ call' = c
    /\ res' = r
    /\ IF r.kind = "Ok"
       THEN wire' = r.words /\ wireSrc' = c
       ELSE UNCHANGED <<wire, wireSrc>>
    /\ UNCHANGED <<abi, salt, entry, entrySrc>>

EncodeInput(sig, values) ==
    Sent([values |-> values, sig |-> sig, op |-> "encode_input_with_signature"],
         encode_input_with_signature(abi, salt, sig, values))

EncodeValues(values) ==
    Sent([values |-> values, op |-> "encode_values"], encode_values(values))

\* the stream an encoder returned reaches the decoder with another word in
\* the place of its count
Tamper(w) ==
    /\ call.op = "encode_input_with_signature"
    /\ res.kind = "Ok"
    /\ wire' = [wire EXCEPT ![Len(wire) - 1] = w]
    /\ wireSrc' = [values |-> call.values, sig |-> call.sig, op |-> "tampered"]
    /\ call' = [op |-> "tamper"]
    /\ res' = NoResult
    /\ UNCHANGED <<abi, salt, entry, entrySrc>>

DecodeInput ==
    /\ call' = [input |-> wire, op |-> "decode_input_from_slice"]
    /\ res' = decode_input_from_slice(abi, salt, wire)
    /\ UNCHANGED <<abi, salt, wire, wireSrc, entry, entrySrc>>

DecodeOutput(sig) ==
    /\ call' = [output |-> wire, sig |-> sig, op |-> "decode_output_from_slice"]
    /\ res' = decode_output_from_slice(abi, sig, wire)
    /\ UNCHANGED <<abi, salt, wire, wireSrc, entry, entrySrc>>

\* signature() and method_id() of the i-th function
Describe(i) ==
    /\ i \in 1..Len(abi.functions)
    /\ call' = [idx |-> i, op |-> "describe"]
    /\ res' = [kind |-> "Ok", sig |-> signature(abi.functions[i]),
               id |-> method_id(salt, abi.functions[i])]
    /\ UNCHANGED <<abi, salt, wire, wireSrc, entry, entrySrc>>

NextCall ==
    \/ \E stream \in RawStreams : Supply(stream)
    \/ \E sig \in Signatures, values \in ValueLists : EncodeInput(sig, values)
    \/ \E values \in ValueLists : EncodeValues(values)
    \/ \E w \in {U64(0), U64(7)} : Tamper(w)
    \/ DecodeInput
    \/ \E sig \in Signatures : DecodeOutput(sig)
    \/ \E i \in 1..MaxFuncs : Describe(i)

Spec == InitCall /\ [][NextCall]_vars

-----------------------------------------------------------------------------
(* Logs *)

\* Event::decode_data_from_slice: the indexed parameters are read from
\* topics[1..], one topic each, the others from the data words
RECURSIVE DecodeEventParams(_, _, _, _)
DecodeEventParams(params, tps, data, acc) ==
    IF params = <<>> THEN DOk(acc, data)
    ELSE IF params[1].indexed = Some(TRUE)
    THEN IF tps = <<>> THEN DErr
         ELSE LET r == DecodeValue(params[1].type_, tps[1])
              IN  IF ~r.ok THEN DErr
                  ELSE DecodeEventParams(Tail(params), Tail(tps), data,
                                         Append(acc, r.v))
    ELSE LET r == DecodeValue(params[1].type_, data)
         IN  IF ~r.ok THEN DErr
             ELSE DecodeEventParams(Tail(params), tps, r.rest, Append(acc, r.v))

Event_decode_data_from_slice(e, topics, data) ==
    DecodeEventParams(e.inputs, Tail(topics), data, <<>>)

\* decode_log_from_slice that looks the event up before it checks the topics
decode_log_from_slice_LookupFirst(a, s, topics, data) ==
    IF a.events = <<>> THEN NotFound
    ELSE IF topics = <<>> THEN RPanic
    ELSE LET MatchTopic(e) == topic(s, e) = topics[1]
             idx == FindFirst([i \in 1..Len(a.events) |->
                                 MatchTopic(a.events[i])])
         IN  IF idx = 0 THEN NotFound
             ELSE LET e == a.events[idx]
                      d == Event_decode_data_from_slice(e, topics, data)
                  IN  IF ~d.ok THEN CodecError
                      ELSE ROkDecoded(idx, e, DecodedParams(e.inputs, d.v))

\* Abi::decode_log_from_slice
decode_log_from_slice(a, s, topics, data) ==
    IF topics = <<>> THEN MissingTopic
    ELSE LET MatchTopic(e) == topic(s, e) = topics[1]
             idx == FindFirst([i \in 1..Len(a.events) |->
                                 MatchTopic(a.events[i])])
         IN  IF idx = 0 THEN NotFound
             ELSE LET e == a.events[idx]
                      d == Event_decode_data_from_slice(e, topics, data)
                  IN  IF ~d.ok THEN CodecError
                      ELSE ROkDecoded(idx, e, DecodedParams(e.inputs, d.v))

\* the events: e(u32), the same signature with the parameter indexed, an
\* anonymous event of two parameters, an event without parameters
EventSet ==
    {Event(<<"e">>, <<Param(<<"x">>, TU32, Some(FALSE))>>, FALSE),
     Event(<<"e">>, <<Param(<<"y">>, TU32, Some(TRUE))>>, FALSE),
     Event(<<"t">>,
           <<Param(<<"s">>, TString, None), Param(<<"i">>, TU32, Some(TRUE))>>,
           TRUE),
     Event(<<"e", "v">>, <<>>, FALSE)}

\* a topic that is a value, not a digest
TopicSet ==
    {[i \in 1..4 |-> SubSeq(Digests[d], 8 * i - 7, 8 * i)] : d \in 1..Len(Digests)}
        \cup {<<U64(0), U64(0), U64(0), U64(9)>>}

InitLog ==
    /\ abi \in [functions : {<<>>}, events : SeqUpTo(EventSet, MaxEvents)]
    /\ salt \in Salts
    /\ wire = <<>>
    /\ wireSrc = RawSrc
    /\ entry = None
    /\ entrySrc = NoCall
    /\ call = NoCall
    /\ res = NoResult

DecodeLog(topics) ==
    /\ call' = [op |-> "decode_log_from_slice", data |-> wire,
                topics |-> topics]
    /\ res' = decode_log_from_slice(abi, salt, topics, wire)
    /\ UNCHANGED <<abi, salt, wire, wireSrc, entry, entrySrc>>

NextLog ==
    \/ \E values \in ValueLists : EncodeValues(values)
    \/ \E topics \in SeqUpTo(TopicSet, MaxTopics) : DecodeLog(topics)

SpecLog == InitLog /\ [][NextLog]_vars

-----------------------------------------------------------------------------
(* Params: the type grammar and serde *)

\* the type strings parsed: a base word, then bracket groups, some malformed
BaseStrings ==
    {Keyword(k) : k \in {"U32", "U256", "Field", "Address", "Hash", "Bool",
                         "String", "Fields"}}
        \cup {KwTuple, <<"u", "i", "n", "t">>}

BracketStrings ==
    {<<"[", "]">>, <<"[", "2", "]">>, <<"[", "1", "0", "]">>, <<"[", "2">>,
     <<"x">>,
     <<"[">> \o [i \in 1..Len(U64MaxDigits) |->
                    IF i = Len(U64MaxDigits) THEN "6"
                    ELSE DigitChars[U64MaxDigits[i] + 1]] \o <<"]">>}

TypeStrings ==
    {b \o Flatten(bs) : b \in BaseStrings,
                        bs \in SeqUpTo(BracketStrings, MaxBrackets)}

EntryU32(name) == ParamEntry(name, Keyword("U32"), None, None)

\* the components of the serde_tuple test of params.rs, and of the spec
ComponentsAB ==
    <<EntryU32(<<"a">>),
      ParamEntry(<<"b">>, Keyword("U32") \o <<"[", "]">>, None, None)>>

ComponentsXY == <<EntryU32(<<"x">>), EntryU32(<<"y">>)>>

ComponentsNested ==
    <<EntryU32(<<"a">>),
      ParamEntry(<<"c">>, KwTuple \o <<"[", "]">>, None, Some(ComponentsXY))>>

\* a component whose type is no type
ComponentsBad ==
    <<EntryU32(<<"a">>), ParamEntry(<<"b">>, <<"u", "i", "n", "t">>, None, None)>>

\* a nested tuple without components of its own
ComponentsNestedBad ==
    <<ParamEntry(<<"c">>, KwTuple, None, None), EntryU32(<<"a">>)>>

ComponentsDeepBad ==
    <<ParamEntry(<<"d">>, KwTuple, None, Some(ComponentsNestedBad))>>

ComponentsSet ==
    {None, Some(<<>>), Some(ComponentsAB), Some(ComponentsNested),
     Some(ComponentsBad), Some(ComponentsNestedBad), Some(ComponentsDeepBad)}

TupleAB == TTuple(<<Fld(<<"a">>, TU32), Fld(<<"b">>, TArray(TU32))>>)

TupleXY == TTuple(<<Fld(<<"x">>, TU32), Fld(<<"y">>, TU32)>>)

\* the Type of the serde_tuple test of params.rs
TupleNested ==
    TTuple(<<Fld(<<"a">>, TU32), Fld(<<"b">>, TArray(TU32)),
             Fld(<<"c">>, TArray(TupleXY))>>)

BaseTypes == {TU32, TString, TFields, TupleAB, TupleNested, TTuple(<<>>)}

\* the array layers put around a base type: <<>> is [], <<n>> is [n]
Layers == {None, Some(2), Some(10)}

RECURSIVE Wrap(_, _)
\* ty in the layers ls, the first the innermost
Wrap(ty, ls) ==
    IF ls = <<>> THEN ty
    ELSE array_from_size(Wrap(ty, SubSeq(ls, 1, Len(ls) - 1)), ls[Len(ls)])

TypeSet == {Wrap(b, ls) : b \in BaseTypes, ls \in SeqUpTo(Layers, MaxBrackets)}

ParamSet ==
    {Param(n, ty, ix) : n \in {<<"a">>, <<>>}, ty \in TypeSet,
                        ix \in {None, Some(TRUE)}}

InitParam ==
    /\ abi = [functions |-> <<>>, events |-> <<>>]
    /\ salt = 0
    /\ wire = <<>>
    /\ wireSrc = RawSrc
    /\ entry = None
    /\ entrySrc = NoCall
    /\ call = NoCall
    /\ res = NoResult

\* the decoded parameter lists a reader is made of: names that are empty,
\* that differ and that repeat, with values that tell the parameters apart
DecodedParamsSet ==
    SeqUpTo({[param |-> Param(n, TU32, None), value |-> VU32(U64(v))] :
                n \in {<<>>, <<"x">>, <<"y">>}, v \in {1, 2}},
            MaxParams)

\* HashMap::insert that keeps the value a key already has
Insert_KeepFirst(m, k, v) ==
    [x \in DOMAIN m \cup {k} |-> IF x \in DOMAIN m THEN m[x] ELSE v]

\* HashMap::insert: the value of the key is replaced
Insert(m, k, v) == [x \in DOMAIN m \cup {k} |-> IF x = k THEN v ELSE m[x]]

RECURSIVE CollectByName(_, _, _)
\* .filter(name not empty).map((name, param)).collect() from the i-th
\* parameter on: a reference to a parameter is its index in the list
CollectByName(decoded_params, i, m) ==
    IF i > Len(decoded_params) THEN m
    ELSE CollectByName(decoded_params, i + 1,
                       IF decoded_params[i].param.name = <<>> THEN m
                       ELSE Insert(m, decoded_params[i].param.name, i))

\* DecodedParamsReader::new that does not filter the empty names out
DecodedParamsReader_new_NoFilter(decoded_params) ==
    [by_index |-> [i \in 1..Len(decoded_params) |-> i],
     by_name |-> [k \in {decoded_params[i].param.name :
                            i \in 1..Len(decoded_params)} |->
                    CHOOSE i \in 1..Len(decoded_params) :
                        decoded_params[i].param.name = k
                        /\ \A j \in (i + 1)..Len(decoded_params) :
                                decoded_params[j].param.name # k]]

\* DecodedParamsReader::new
DecodedParamsReader_new(decoded_params) ==
    [by_index |-> [i \in 1..Len(decoded_params) |-> i],
     by_name |-> CollectByName(decoded_params, 1, <<>>)]

\* DecodedParams::reader on a list of decoded parameters
Reader(decoded_params) ==
    /\ Fresh
    /\ call' = [op |-> "reader", decoded_params |-> decoded_params]
    /\ res' = DecodedParamsReader_new(decoded_params)
    /\ UNCHANGED <<abi, salt, wire, wireSrc, entry, entrySrc>>

\* an entry of the JSON list: name, inputs, outputs and anonymous are Options,
\* inputs and outputs of lists of serialized Params
AbiEntry(type_, name, inputs, outputs, anonymous) ==
    [name |-> name,
     type_ |-> type_,
     inputs |-> inputs,
     outputs |-> outputs,
     anonymous |-> anonymous]

\* Serialize for Abi: the entries that are written
SerializeAbi(a) ==
    LET SerializeParams(ps) == [i \in 1..Len(ps) |-> SerializeParam(ps[i])]
    IN
    [i \in 1..Len(a.functions) |->
        AbiEntry("function", Some(a.functions[i].name),
                 Some(SerializeParams(a.functions[i].inputs)),
                 Some(SerializeParams(a.functions[i].outputs)), None)]
    \o [i \in 1..Len(a.events) |->
        AbiEntry("event", Some(a.events[i].name),
                 Some(SerializeParams(a.events[i].inputs)), None,
                 Some(a.events[i].anonymous))]

\* whether an Option<Vec<Param>> of an entry deserializes
ParamsParse(opt) ==
    opt = None \/ \A i \in 1..Len(opt[1]) : DeserializeParam(opt[1][i]).ok

\* Option<Vec<Param>>::unwrap_or_default() of a field that deserialized
UnwrapParams(opt) ==
    IF opt = None THEN <<>>
    ELSE [i \in 1..Len(opt[1]) |-> DeserializeParam(opt[1][i]).param]

RECURSIVE visit_seq(_, _)
\* visit_seq that passes over an entry of another type
visit_seq_SkipOthers(entries, a) ==
    IF entries = <<>> THEN [abi |-> a, ok |-> TRUE]
    ELSE IF ~ParamsParse(entries[1].inputs) \/ ~ParamsParse(entries[1].outputs)
    THEN [ok |-> FALSE]
    ELSE IF entries[1].type_ = "function"
    THEN IF entries[1].name = None THEN [ok |-> FALSE]
         ELSE visit_seq(Tail(entries),
                        [a EXCEPT !.functions =
                            Append(@, Function(entries[1].name[1],
                                               UnwrapParams(entries[1].inputs),
                                               UnwrapParams(entries[1].outputs)))])
    ELSE IF entries[1].type_ = "event"
    THEN IF entries[1].name = None \/ entries[1].anonymous = None THEN [ok |-> FALSE]
         ELSE visit_seq(Tail(entries),
                        [a EXCEPT !.events =
                            Append(@, Event(entries[1].name[1],
                                            UnwrapParams(entries[1].inputs),
                                            entries[1].anonymous[1]))])
    ELSE visit_seq(Tail(entries), a)

\* AbiVisitor::visit_seq from the Abi a on: the loop over the entries left.
\* next_element fails on an entry one of whose Params does not deserialize.
visit_seq(entries, a) ==
    IF entries = <<>> THEN [abi |-> a, ok |-> TRUE]
    ELSE IF ~ParamsParse(entries[1].inputs) \/ ~ParamsParse(entries[1].outputs)
    THEN [ok |-> FALSE]
    ELSE IF entries[1].type_ = "function"
    THEN IF entries[1].name = None THEN [ok |-> FALSE]
         ELSE visit_seq(Tail(entries),
                        [a EXCEPT !.functions =
                            Append(@, Function(entries[1].name[1],
                                               UnwrapParams(entries[1].inputs),
                                               UnwrapParams(entries[1].outputs)))])
    ELSE IF entries[1].type_ = "event"
    THEN IF entries[1].name = None \/ entries[1].anonymous = None THEN [ok |-> FALSE]
         ELSE visit_seq(Tail(entries),
                        [a EXCEPT !.events =
                            Append(@, Event(entries[1].name[1],
                                            UnwrapParams(entries[1].inputs),
                                            entries[1].anonymous[1]))])
    ELSE [ok |-> FALSE]

\* Deserialize for Abi
DeserializeAbi(entries) ==
    visit_seq(entries, [functions |-> <<>>, events |-> <<>>])

\* the entries of the schemas that are loaded: functions and events with and
\* without their lists, entries that lack a name or the anonymous field, an
\* entry of another type, a parameter whose type is no type
EntrySet ==
    {AbiEntry("function", Some(<<"f">>), Some(<<EntryU32(<<"x">>)>>),
              Some(<<>>), None),
     AbiEntry("function", Some(<<"g">>), None, None, None),
     AbiEntry("event", Some(<<"e">>), Some(<<EntryU32(<<"x">>)>>), None,
              Some(FALSE)),
     AbiEntry("event", Some(<<"t">>), None, None, Some(TRUE)),
     AbiEntry("event", Some(<<"e">>), None, None, None),
     AbiEntry("function", None, Some(<<>>), None, None),
     AbiEntry("event", None, None, None, Some(FALSE)),
     AbiEntry("constructor", None, Some(<<>>), None, None),
     AbiEntry("function", Some(<<"h">>), Some(ComponentsBad), None, None)}

\* the Abis that are serialized: the functions, one of them with a parameter
\* that is an array of arrays of tuples, and the events
AbiSet ==
    [functions :
        SeqUpTo(FunctionSet
                    \cup {Function(<<"d">>,
                                   <<Param(<<"p">>, TArray(TArray(TupleXY)),
                                           None)>>,
                                   <<>>)},
                MaxFuncs),
     events : SeqUpTo(EventSet, MaxEvents)]

\* a schema somebody wrote is loaded
LoadSchema(entries) ==
    /\ Fresh
    /\ call' = [op |-> "deserialize_abi", entries |-> entries, src |-> None]
    /\ res' = DeserializeAbi(entries)
    /\ UNCHANGED <<abi, salt, wire, wireSrc, entry, entrySrc>>

\* an Abi is serialized
SaveAbi(a) ==
    /\ Fresh
    /\ call' = [abi |-> a, op |-> "serialize_abi"]
    /\ res' = [ok |-> TRUE, entries |-> SerializeAbi(a)]
    /\ UNCHANGED <<abi, salt, wire, wireSrc, entry, entrySrc>>

\* the entries an Abi was serialized to are loaded
Reload ==
    /\ call.op = "serialize_abi"
    /\ call' = [op |-> "deserialize_abi", entries |-> res.entries,
                src |-> Some(call.abi)]
    /\ res' = DeserializeAbi(res.entries)
    /\ UNCHANGED <<abi, salt, wire, wireSrc, entry, entrySrc>>

\* parse_exact_type on a type string and a components list
ParseType(components, input) ==
    /\ Fresh
    /\ call' = [components |-> components,
                input |-> input,
                op |-> "parse_exact_type"]
    /\ res' = parse_exact_type(components, input)
    /\ UNCHANGED <<abi, salt, wire, wireSrc, entry, entrySrc>>

\* a Param is serialized: its entry is the entry in flight
Serialize(p) ==
    /\ Fresh
    /\ call' = [param |-> p, op |-> "serialize"]
    /\ res' = [entry |-> SerializeParam(p), ok |-> TRUE]
    /\ entry' = Some(SerializeParam(p))
    /\ entrySrc' = call'
    /\ UNCHANGED <<abi, salt, wire, wireSrc>>

\* an entry of a schema somebody wrote is the entry in flight
LoadEntry(name, tystr, components) ==
    /\ Fresh
    /\ call' = [op |-> "load"]
    /\ res' = NoResult
    /\ entry' = Some(ParamEntry(name, tystr, None, components))
    /\ entrySrc' = call'
    /\ UNCHANGED <<abi, salt, wire, wireSrc>>

\* the entry in flight is deserialized
Deserialize ==
    /\ entry # None
    /\ call' = [entry |-> entry[1], op |-> "deserialize"]
    /\ res' = DeserializeParam(entry[1])
    /\ UNCHANGED <<abi, salt, wire, wireSrc, entry, entrySrc>>

NextParam ==
    \/ \E components \in ComponentsSet, input \in TypeStrings :
            ParseType(components, input)
    \/ \E p \in ParamSet : Serialize(p)
    \/ \E input \in {KwTuple, KwTuple \o <<"[", "]", "[", "]">>,
                     Keyword("U32") \o <<"[", "2", "]">>},
          components \in ComponentsSet :
            LoadEntry(<<"p">>, input, components)
    \/ Deserialize
    \/ \E decoded_params \in DecodedParamsSet : Reader(decoded_params)
    \/ \E entries \in SeqUpTo(EntrySet, MaxEntries) : LoadSchema(entries)
    \/ \E a \in AbiSet : SaveAbi(a)
    \/ Reload

SpecParam == InitParam /\ [][NextParam]_vars

-----------------------------------------------------------------------------
(* The claims *)

\* the parameters paired with the values, in order
Zip(params, values) ==
    [i \in 1..Len(params) |-> [param |-> params[i], value |-> values[i]]]

TypesOf(params) == [i \in 1..Len(params) |-> params[i].type_]

Least(S) == CHOOSE i \in S : \A j \in S : i <= j

IsNotFound(r) == r.kind = "Err" /\ r.err = "NotFound"

IsCodecError(r) == r.kind = "Err" /\ r.err = "Codec"

\* w is the word of the number n
IsCount(w, n) == IsSmall(w) /\ SmallValue(w) = n

\* the functions of the Abi whose method id is the word w
IdHits(w) ==
    {i \in 1..Len(abi.functions) : method_id(salt, abi.functions[i]) = w}

\* the functions of the Abi whose signature is sig
SigHits(sig) ==
    {i \in 1..Len(abi.functions) : signature(abi.functions[i]) = sig}

\* C1: the stream Encode(V) ++ [len(Encode(V))] ++ [f.method_id()], which is
\* what encode_input_with_signature(f.signature(), V) returns, is decoded by
\* decode_input_from_slice to f and to f's inputs paired with V in order,
\* for every function f of the Abi with no earlier function of its method id
\* and every V of f's input types.
Thm_C1_InputRoundTrip ==
    call.op = "decode_input_from_slice" =>
        \A i \in 1..Len(abi.functions), V \in ValueLists :
            LET f == abi.functions[i]
                S == Encode(V) \o <<U64(Len(Encode(V))), method_id(salt, f)>>
            IN  (/\ Matches(V, f.inputs)
                 /\ call.input = S
                 /\ \A j \in 1..(i - 1) :
                        method_id(salt, abi.functions[j]) # method_id(salt, f))
                => /\ encode_input_with_signature(abi, salt, signature(f), V)
                        = ROkWords(S)
                   /\ res = ROkDecoded(i, f, Zip(f.inputs, V))

\* an encoded call of the second function of the Abi, with two values, decoded
Witness_C1 ==
    /\ call.op = "decode_input_from_slice"
    /\ wireSrc.op = "encode_input_with_signature"
    /\ res.kind = "Ok"
    /\ res.idx = 2
    /\ Len(res.params) = 2
    /\ wireSrc.sig = signature(res.f)
    /\ Matches(wireSrc.values, res.f.inputs)

\* C2: on a stream with a final word, decode_input_from_slice takes that word
\* as the method id: it returns NotFound exactly when no function of the Abi
\* has that method id, and then has decoded no parameter; otherwise what it
\* returns is what decoding against the first such function's inputs gives.
Thm_C2_MethodIdLookup ==
    (call.op = "decode_input_from_slice" /\ call.input # <<>>) =>
        LET n == Len(call.input)
            hits == IdHits(call.input[n])
        IN  /\ IsNotFound(res) <=> hits = {}
            /\ IsNotFound(res) => ~res.decoding
            /\ (hits # {} /\ n >= 2) =>
                LET f == abi.functions[Least(hits)]
                    d == decode_from_slice(SubSeq(call.input, 1, n - 2),
                                           TypesOf(f.inputs))
                IN  IF d.ok
                    THEN res = ROkDecoded(Least(hits), f, Zip(f.inputs, d.v))
                    ELSE IsCodecError(res)

\* two different functions have the method id, the first is returned
Witness_C2 ==
    /\ call.op = "decode_input_from_slice"
    /\ call.input # <<>>
    /\ res.kind = "Ok"
    /\ res.idx = 1
    /\ IdHits(call.input[Len(call.input)]) = {1, 2}
    /\ signature(abi.functions[1]) # signature(abi.functions[2])

\* C3: decode_input_from_slice and decode_output_from_slice return a decoded
\* result or an error value on every stream: no call aborts the process.
Cex_C3_NoAbort ==
    call.op \in {"decode_input_from_slice", "decode_output_from_slice"} =>
        res.kind \in {"Ok", "Err"}

\* C4, as stated: for every function f of the Abi and every V of f's output
\* types, decode_output_from_slice(f.signature(), encode_values(V)) yields V
\* paired with f's outputs.
Cex_C4_AnyFunctionOfTheSignature ==
    call.op = "decode_output_from_slice" =>
        \A i \in 1..Len(abi.functions), V \in ValueLists :
            LET f == abi.functions[i]
            IN  (/\ call.sig = signature(f)
                 /\ Matches(V, f.outputs)
                 /\ call.output = Encode(V) \o <<U64(Len(Encode(V)))>>)
                => res.kind = "Ok" /\ res.params = Zip(f.outputs, V)

\* C4, amended: on a stream with a final word, decode_output_from_slice
\* returns NotFound exactly when no function has the signature, and otherwise
\* what decoding all words but the last against the outputs of the first
\* function of that signature gives; so encode_values(V) decodes to V paired
\* with the outputs of the first function f of the signature, for V of f's
\* output types.
Thm_C4_OutputRoundTrip ==
    (call.op = "decode_output_from_slice" /\ call.output # <<>>) =>
        LET n == Len(call.output)
            hits == SigHits(call.sig)
        IN  /\ IsNotFound(res) <=> hits = {}
            /\ hits # {} =>
                LET f == abi.functions[Least(hits)]
                    d == decode_from_slice(SubSeq(call.output, 1, n - 1),
                                           TypesOf(f.outputs))
                IN  /\ IF d.ok
                       THEN res = ROkDecoded(Least(hits), f, Zip(f.outputs, d.v))
                       ELSE IsCodecError(res)
                    /\ \A V \in ValueLists :
                        (/\ Matches(V, f.outputs)
                         /\ call.output = Encode(V) \o <<U64(Len(Encode(V)))>>)
                        => res = ROkDecoded(Least(hits), f, Zip(f.outputs, V))

\* the output of the second function of the Abi, encoded by encode_values
Witness_C4 ==
    /\ call.op = "decode_output_from_slice"
    /\ wireSrc.op = "encode_values"
    /\ res.kind = "Ok"
    /\ res.idx = 2
    /\ res.params # <<>>
    /\ Matches(wireSrc.values, res.f.outputs)

\* the events of the Abi whose topic is t
TopicHits(t) ==
    {i \in 1..Len(abi.events) : topic(salt, abi.events[i]) = t}

\* C5: decode_log_from_slice returns MissingTopic whenever the topic list is
\* empty, whatever the events and the data; on other topic lists it returns
\* NotFound exactly when no event's topic is topics[0], and otherwise what
\* the first event of that topic decodes.
Thm_C5_LogLookup ==
    call.op = "decode_log_from_slice" =>
        IF call.topics = <<>>
        THEN res.kind = "Err" /\ res.err = "MissingTopic"
        ELSE LET hits == TopicHits(call.topics[1])
             IN  /\ IsNotFound(res) <=> hits = {}
                 /\ hits # {} =>
                     LET e == abi.events[Least(hits)]
                         d == Event_decode_data_from_slice(e, call.topics,
                                                           call.data)
                     IN  IF d.ok
                         THEN res = ROkDecoded(Least(hits), e, Zip(e.inputs, d.v))
                         ELSE IsCodecError(res)

\* no topic, though the Abi has events and the log has data
Witness_C5 ==
    /\ call.op = "decode_log_from_slice"
    /\ call.topics = <<>>
    /\ abi.events # <<>>
    /\ call.data # <<>>
    /\ res.kind = "Err"
    /\ res.err = "MissingTopic"

\* C6: encode_input_with_signature returns Encode(V), then the word of the
\* number of words of Encode(V), then the method id of the function of the
\* signature: len(Encode(V)) + 2 words; NotFound and no words for a signature
\* of no function.  encode_values returns the same without the method id.
Thm_C6_EncodeFraming ==
    /\ call.op = "encode_input_with_signature" =>
        LET enc == Encode(call.values)
            n == Len(enc)
            hits == SigHits(call.sig)
        IN  IF hits = {}
            THEN IsNotFound(res) /\ "words" \notin DOMAIN res
            ELSE /\ res.kind = "Ok"
                 /\ Len(res.words) = n + 2
                 /\ SubSeq(res.words, 1, n) = enc
                 /\ IsCount(res.words[n + 1], n)
                 /\ \A i \in hits :
                        res.words[n + 2] = method_id(salt, abi.functions[i])
    /\ call.op = "encode_values" =>
        LET enc == Encode(call.values)
            n == Len(enc)
        IN  /\ res.kind = "Ok"
            /\ Len(res.words) = n + 1
            /\ SubSeq(res.words, 1, n) = enc
            /\ IsCount(res.words[n + 1], n)

\* the call of the test of abi.rs encoded: six words, the count, the method id
Witness_C6 ==
    /\ call.op = "encode_input_with_signature"
    /\ call.values = ValuesF1
    /\ res.kind = "Ok"
    /\ Len(res.words) = 8
    /\ res.words[7] = U64(6)

RECURSIVE CommaList(_)
\* the strings, a comma between two of them
CommaList(strs) ==
    IF strs = <<>> THEN <<>>
    ELSE (IF Len(strs) = 1 THEN <<>>
          ELSE CommaList(SubSeq(strs, 1, Len(strs) - 1)) \o <<",">>)
            \o strs[Len(strs)]

\* C10: a function of the name and the input types of another has its
\* signature and its method id, whatever the parameter names, the indexed
\* flags and the outputs; the signature is the name, "(", the renderings of the
\* input types with commas between, ")"; the method id is below 2^32.
Thm_C10_SignatureOfNameAndTypes ==
    call.op = "describe" =>
        LET f == abi.functions[call.idx]
        IN  /\ \A g \in FunctionSet :
                (g.name = f.name /\ TypesOf(g.inputs) = TypesOf(f.inputs))
                => signature(g) = res.sig /\ method_id(salt, g) = res.id
            /\ res.sig
                = f.name \o <<"(">>
                    \o CommaList([i \in 1..Len(f.inputs) |->
                                    TypeToString(f.inputs[i].type_)])
                    \o <<")">>
            /\ FitsU32(res.id)

\* a function described that shares its name and input types with another,
\* whose parameters have other names
Witness_C10 ==
    /\ call.op = "describe"
    /\ \E g \in FunctionSet :
        /\ g.name = abi.functions[call.idx].name
        /\ TypesOf(g.inputs) = TypesOf(abi.functions[call.idx].inputs)
        /\ g.inputs # abi.functions[call.idx].inputs
        /\ g.outputs # abi.functions[call.idx].outputs
    /\ Len(abi.functions[call.idx].inputs) = 2

\* the type keywords, each with the Type it names
KeywordTable ==
    {<<Keyword("U32"), TU32>>, <<Keyword("U256"), TU256>>,
     <<Keyword("Field"), TField>>, <<Keyword("Address"), TAddress>>,
     <<Keyword("Hash"), THash>>, <<Keyword("Bool"), TBool>>,
     <<Keyword("String"), TString>>, <<Keyword("Fields"), TFields>>}

\* the simple types that parse against the components cs, each with its Type
SimpleTable(cs) ==
    KeywordTable
        \cup (IF parse_exact_type(cs, KwTuple).st = "Ok"
              THEN {<<KwTuple, parse_exact_type(cs, KwTuple).v>>}
              ELSE {})

\* the text of a bracket group
LayerString(l) ==
    IF l = None THEN <<"[", "]">> ELSE <<"[">> \o NatToString(l[1]) \o <<"]">>

\* the text of the bracket groups ls, in order
LayersString(ls) == Flatten([i \in 1..Len(ls) |-> LayerString(ls[i])])

\* C7: 'T b1 ... bk', T a simple type and b1..bk bracket groups, parses to T
\* wrapped by b1 first and by each later group around the previous result, bk
\* the outermost, [N] a FixedArray of N and [] an Array: "string[2][]" is
\* Array(FixedArray(String, 2)), "string[][3]" FixedArray(Array(String), 3).
Thm_C7_BracketFoldOrder ==
    call.op = "parse_exact_type" =>
        /\ \A b \in SimpleTable(call.components),
              ls \in SeqUpTo(Layers, MaxBrackets) \ {<<>>} :
                call.input = b[1] \o LayersString(ls)
                    => res = POk(<<>>, Wrap(b[2], ls))
        /\ call.input = Keyword("String") \o <<"[", "2", "]", "[", "]">>
            => res.st = "Ok" /\ res.v = TArray(TFixedArray(TString, 2))
        /\ call.input = Keyword("String") \o <<"[", "]", "[", "1", "0", "]">>
            => res.st = "Ok" /\ res.v = TFixedArray(TArray(TString), 10)

\* "string[2][]" parsed
Witness_C7 ==
    /\ call.op = "parse_exact_type"
    /\ call.input = Keyword("String") \o <<"[", "2", "]", "[", "]">>
    /\ res.st = "Ok"
    /\ res.v.k = "Array"
    /\ res.v.e.k = "FixedArray"

\* C8: "tuple" with components parses to the Tuple of one (name, type) per
\* component, in order, the type being what the component's type string parses
\* to against the component's own components; it does not parse without
\* components, nor when a component, at any depth, does not parse.
Thm_C8_TupleComponents ==
    (call.op = "parse_exact_type" /\ call.input = KwTuple) =>
        IF call.components = None THEN res.st \in {"Error", "Failure"}
        ELSE LET cs == call.components[1]
                 rs == [i \in 1..Len(cs) |->
                            parse_exact_type(cs[i].components, cs[i].type_)]
             IN  /\ IF \A i \in 1..Len(cs) : rs[i].st = "Ok"
                    THEN res = POk(<<>>, TTuple([i \in 1..Len(cs) |->
                                            Fld(cs[i].name, rs[i].v)]))
                    ELSE res.st \in {"Error", "Failure"}
                 /\ cs = ComponentsAB => res = POk(<<>>, TupleAB)
                 /\ cs = ComponentsNested
                        => res = POk(<<>>, TTuple(<<Fld(<<"a">>, TU32),
                                             Fld(<<"c">>, TArray(TupleXY))>>))
                 /\ cs \in {ComponentsBad, ComponentsNestedBad,
                            ComponentsDeepBad}
                        => res.st \in {"Error", "Failure"}

\* "tuple" parsed with a component that is an array of tuples with components
\* of its own
Witness_C8 ==
    /\ call.op = "parse_exact_type"
    /\ call.input = KwTuple
    /\ call.components = Some(ComponentsNested)
    /\ res.st = "Ok"
    /\ Len(res.v.fs) = 2
    /\ res.v.fs[2].ty.e.k = "Tuple"

\* C9: deserializing the entry a Param was serialized to succeeds and returns
\* that Param, for a Param of every Type, a tuple inside more than one array
\* layer included.
Cex_C9_SerdeRoundTrip ==
    (call.op = "deserialize" /\ entrySrc.op = "serialize") =>
        res = [ok |-> TRUE, param |-> entrySrc.param]

\* one bracket group: "[", digits of a number that fits u64 or none, "]"
IsGroup(s) ==
    /\ Len(s) >= 2
    /\ s[1] = "["
    /\ s[Len(s)] = "]"
    /\ \A i \in 2..(Len(s) - 1) : IsDigit(s[i])
    /\ Len(s) > 2 => FitsU64([i \in 1..(Len(s) - 2) |-> DigitValue(s[i + 1])])

RECURSIVE IsGroups(_)
\* zero or more bracket groups and nothing else
IsGroups(s) ==
    \/ s = <<>>
    \/ \E j \in 2..Len(s) :
        IsGroup(SubSeq(s, 1, j)) /\ IsGroups(SubSeq(s, j + 1, Len(s)))

\* a simple-type keyword, then zero or more bracket groups
IsTypeString(s) ==
    \E b \in KeywordTable \cup {<<KwTuple, KwTuple>>} :
        StartsWith(s, b[1]) /\ IsGroups(Drop(s, Len(b[1])))

\* 2^64 in decimal
TooBig ==
    <<"1", "8", "4", "4", "6", "7", "4", "4", "0", "7",
      "3", "7", "0", "9", "5", "5", "1", "6", "1", "6">>

\* C14: a type string parses only when it is, entirely, a simple-type keyword
\* followed by zero or more well-formed bracket groups: an unknown token, a
\* character left over ("u32x", "u32[2", "u32[2]x") and a bracket size that
\* does not fit u64 are grammar errors.  Every keyword other than tuple, with
\* or without bracket groups, parses to its own Type: "fields" to Fields and
\* "field" to Field, "u256" to U256 and "u32" to U32.
Thm_C14_WholeStringGrammar ==
    call.op = "parse_exact_type" =>
        /\ res.st \in {"Ok", "Error", "Failure"}
        /\ res.st = "Ok" => IsTypeString(call.input) /\ res.rest = <<>>
        /\ \A b \in KeywordTable, ls \in SeqUpTo(Layers, MaxBrackets) :
                call.input = b[1] \o LayersString(ls)
                    => res.st = "Ok" /\ res.v = Wrap(b[2], ls)
        /\ call.input \in
                {Keyword("U32") \o <<"x">>, Keyword("U32") \o <<"[", "2">>,
                 Keyword("U32") \o <<"[", "2", "]", "x">>,
                 Keyword("U32") \o <<"[">> \o TooBig \o <<"]">>,
                 <<"u", "i", "n", "t">>}
            => res.st \in {"Error", "Failure"}
        /\ call.input = <<"f", "i", "e", "l", "d", "s">> => res.v = TFields
        /\ call.input = <<"f", "i", "e", "l", "d">> => res.v = TField
        /\ call.input = <<"f", "i", "e", "l", "d", "[", "]">>
            => res.v = TArray(TField)
        /\ call.input = <<"u", "2", "5", "6", "[", "2", "]">>
            => res.v = TFixedArray(TU256, 2)

\* "u32[2]x": a well-formed type, then a character left over
Witness_C14 ==
    /\ call.op = "parse_exact_type"
    /\ call.input = Keyword("U32") \o <<"[", "2", "]", "x">>
    /\ res.st = "Error"

RECURSIVE BaseOf(_)
\* the type inside every array layer of ty
BaseOf(ty) == IF ty.k \in {"Array", "FixedArray"} THEN BaseOf(ty.e) ELSE ty

RECURSIVE LayersOf(_)
\* the array layers of ty, the innermost first
LayersOf(ty) ==
    CASE ty.k = "Array" -> Append(LayersOf(ty.e), None)
      [] ty.k = "FixedArray" -> Append(LayersOf(ty.e), Some(ty.n))
      [] OTHER -> <<>>

\* the fields of the tuple that ty is, or is an array of; None otherwise
TupleFieldsOf(ty) ==
    IF ty.k = "Tuple" THEN Some(ty.fs)
    ELSE IF ty.k \in {"Array", "FixedArray"} /\ ty.e.k = "Tuple"
    THEN Some(ty.e.fs)
    ELSE None

RECURSIVE EntryAgrees(_, _, _, _)
\* e is the serialized form of the Param (name, ty, indexed)
EntryAgrees(e, name, ty, indexed) ==
    /\ e.name = name
    /\ e.indexed = indexed
    /\ e.type_
        = (IF BaseOf(ty).k = "Tuple" THEN KwTuple ELSE TypeToString(BaseOf(ty)))
            \o LayersString(LayersOf(ty))
    /\ IF TupleFieldsOf(ty) = None THEN e.components = None
       ELSE /\ e.components # None
            /\ Len(e.components[1]) = Len(TupleFieldsOf(ty)[1])
            /\ \A i \in 1..Len(e.components[1]) :
                EntryAgrees(e.components[1][i], TupleFieldsOf(ty)[1][i].name,
                            TupleFieldsOf(ty)[1][i].ty, None)

\* C15: the serialized form of a Param has components exactly when its type
\* is a Tuple or an Array / FixedArray of Tuples, and not for an array of
\* arrays of tuples; the components are one entry per field, in order, each
\* built by the same rule with indexed absent; the type string is "tuple" for
\* a Tuple, with "[]" or "[N]" for each array layer, the innermost first.
Thm_C15_SerializedComponents ==
    call.op = "serialize" =>
        /\ EntryAgrees(res.entry, call.param.name, call.param.type_,
                       call.param.indexed)
        /\ res.entry.components # None
            <=> \/ call.param.type_.k = "Tuple"
                \/ /\ call.param.type_.k \in {"Array", "FixedArray"}
                   /\ call.param.type_.e.k = "Tuple"
        /\ call.param.type_ = TFixedArray(TArray(TupleAB), 2)
            => res.entry.type_ = KwTuple \o <<"[", "]", "[", "2", "]">>

\* an array of tuples with a field that is an array of tuples, serialized
Witness_C15 ==
    /\ call.op = "serialize"
    /\ call.param.type_ = TArray(TupleNested)
    /\ res.entry.type_ = KwTuple \o <<"[", "]">>
    /\ res.entry.components # None
    /\ res.entry.components[1][3].components # None

\* C16: what decode_input_from_slice returns does not depend on the
\* second-to-last word: on a stream of two words or more that differs from
\* the decoded one in that word only, it returns the same function and
\* parameters, or the same error; the word is not compared with the number of
\* parameter words.
Thm_C16_CountWordIgnored ==
    (call.op = "decode_input_from_slice" /\ Len(call.input) >= 2) =>
        LET n == Len(call.input)
        IN  \A w \in RawWords \cup {U64(n - 2), U64(n), U64(1)} :
                decode_input_from_slice(abi, salt,
                                        [call.input EXCEPT ![n - 1] = w])
                    = res

\* an encoded call whose count word was replaced by a wrong one, decoded
Witness_C16 ==
    /\ call.op = "decode_input_from_slice"
    /\ wireSrc.op = "tampered"
    /\ call.input[Len(call.input) - 1] # U64(Len(call.input) - 2)
    /\ res.kind = "Ok"
    /\ Len(res.params) = 2
    /\ res.params = Zip(res.f.inputs, wireSrc.values)

\* the positions of the parameters of the name k in the list dp
Named(dp, k) == {i \in 1..Len(dp) : dp[i].param.name = k}

\* C11: the reader's by_index has one reference per decoded parameter, in
\* the order of the list, the unnamed ones included; by_name has a key for
\* exactly the non-empty names of the list, each mapped to a parameter of
\* that name.
Thm_C11_ReaderIndexes ==
    call.op = "reader" =>
        LET dp == call.decoded_params
        IN  /\ Len(res.by_index) = Len(dp)
            /\ \A i \in 1..Len(dp) : res.by_index[i] = i
            /\ DOMAIN res.by_name
                = {dp[i].param.name : i \in 1..Len(dp)} \ {<<>>}
            /\ \A k \in DOMAIN res.by_name : res.by_name[k] \in Named(dp, k)

\* the reader of an unnamed parameter followed by a named one
Witness_C11 ==
    /\ call.op = "reader"
    /\ Len(call.decoded_params) = 2
    /\ call.decoded_params[1].param.name = <<>>
    /\ call.decoded_params[2].param.name = <<"x">>
    /\ DOMAIN res.by_name = {<<"x">>}
    /\ res.by_index = <<1, 2>>

\* C17: by_name maps a name that several decoded parameters bear to the last
\* of them in the list, on every call of reader(), and by_index lists each of
\* them.
Thm_C17_LastNameWins ==
    call.op = "reader" =>
        LET dp == call.decoded_params
        IN  /\ \A k \in DOMAIN res.by_name :
                \A i \in Named(dp, k) : i <= res.by_name[k]
            /\ \A k \in DOMAIN res.by_name :
                \A i \in Named(dp, k) : \E j \in 1..Len(res.by_index) :
                    res.by_index[j] = i
            /\ res = DecodedParamsReader_new(dp)

\* the reader of two parameters named x with different values, then one
\* named y
Witness_C17 ==
    /\ call.op = "reader"
    /\ Len(call.decoded_params) = 3
    /\ Named(call.decoded_params, <<"x">>) = {1, 2}
    /\ call.decoded_params[1].value # call.decoded_params[2].value
    /\ res.by_name[<<"x">>] = 2
    /\ Len(res.by_index) = 3

IsFunctionEntry(e) == e.type_ = "function"

IsEventEntry(e) == e.type_ = "event"

\* an entry that is no function and no event, or lacks its name, or is an
\* event and lacks the anonymous field
BadEntry(e) ==
    \/ ~IsFunctionEntry(e) /\ ~IsEventEntry(e)
    \/ e.name = None
    \/ IsEventEntry(e) /\ e.anonymous = None

\* every entry is a function or an event with what it must have, and its
\* parameters deserialize
AllValid(es) ==
    \A i \in 1..Len(es) :
        ~BadEntry(es[i]) /\ ParamsParse(es[i].inputs)
            /\ ParamsParse(es[i].outputs)

\* C12: loading a schema returns an error, and no Abi, when an entry is
\* neither a function nor an event, or lacks its name, or is an event and
\* lacks the anonymous field, whatever valid entries come before it; a
\* function or event entry without inputs, or a function entry without
\* outputs, is accepted with the empty list in their place.
Thm_C12_SchemaErrors ==
    call.op = "deserialize_abi" =>
        LET es == call.entries
            fe == SelectSeq(es, IsFunctionEntry)
            ee == SelectSeq(es, IsEventEntry)
        IN  /\ (\E i \in 1..Len(es) : BadEntry(es[i]))
                => ~res.ok /\ DOMAIN res = {"ok"}
            /\ AllValid(es) =>
                /\ res.ok
                /\ Len(res.abi.functions) = Len(fe)
                /\ Len(res.abi.events) = Len(ee)
                /\ \A k \in 1..Len(fe) :
                    /\ fe[k].inputs = None
                        => res.abi.functions[k].inputs = <<>>
                    /\ fe[k].outputs = None
                        => res.abi.functions[k].outputs = <<>>
                /\ \A k \in 1..Len(ee) :
                    ee[k].inputs = None => res.abi.events[k].inputs = <<>>

\* a valid function, a valid event, then an entry of another type
Witness_C12 ==
    /\ call.op = "deserialize_abi"
    /\ Len(call.entries) = 3
    /\ AllValid(SubSeq(call.entries, 1, 2))
    /\ IsFunctionEntry(call.entries[1])
    /\ IsEventEntry(call.entries[2])
    /\ call.entries[3].type_ = "constructor"
    /\ ~res.ok

\* loading valid entries gives the function entries in their order as the
\* functions, and the event entries in their order as the events
LoadKeepsOrder ==
    (call.op = "deserialize_abi" /\ AllValid(call.entries)) =>
        LET fe == SelectSeq(call.entries, IsFunctionEntry)
            ee == SelectSeq(call.entries, IsEventEntry)
        IN  /\ res.ok
            /\ res.abi.functions
                = [k \in 1..Len(fe) |->
                    Function(fe[k].name[1], UnwrapParams(fe[k].inputs),
                             UnwrapParams(fe[k].outputs))]
            /\ res.abi.events
                = [k \in 1..Len(ee) |->
                    Event(ee[k].name[1], UnwrapParams(ee[k].inputs),
                          ee[k].anonymous[1])]

\* serialization writes the functions in order, then the events in order
SaveKeepsOrder ==
    call.op = "serialize_abi" =>
        LET nf == Len(call.abi.functions)
            ne == Len(call.abi.events)
        IN  /\ Len(res.entries) = nf + ne
            /\ \A i \in 1..nf :
                /\ IsFunctionEntry(res.entries[i])
                /\ res.entries[i].name = Some(call.abi.functions[i].name)
            /\ \A j \in 1..ne :
                /\ IsEventEntry(res.entries[nf + j])
                /\ res.entries[nf + j].name = Some(call.abi.events[j].name)

\* loading what an Abi was serialized to gives its functions and its events
ReloadKeepsOrder ==
    (call.op = "deserialize_abi" /\ call.src # None) =>
        /\ res.ok
        /\ res.abi.functions = call.src[1].functions
        /\ res.abi.events = call.src[1].events

\* C13: loading valid entries gives the function entries in their order as
\* Abi.functions and the event entries in their order as Abi.events, also
\* when the two are interleaved; serialization writes the functions in order,
\* then the events in order; so loading a serialized Abi gives its functions
\* and its events in their orders.
Cex_C13_OrdersKept == LoadKeepsOrder /\ SaveKeepsOrder /\ ReloadKeepsOrder

=============================================================================
